---------------------------- MODULE Spec2Model ----------------------------
(***************************************************************************)
(* Model of scripts/jfr/plot-heap.py: main() reads a two-column CSV of     *)
(* (timestamp, heap) samples line by line, and plot_ascii() prints the     *)
(* report.                                                                 *)
(*                                                                         *)
(* Text is modelled at character level: a line is a sequence of one-       *)
(* character strings, and strip / split / replace / float / re.match are   *)
(* operators over such sequences.                                          *)
(*                                                                         *)
(* Numbers: Python floats are modelled in fixed point.  A heap value is an *)
(* integer number of tenths of a megabyte (the input lines of the model    *)
(* carry at most one fractional digit), a time is an integer number of     *)
(* milliseconds (int(ms) / 1000 seconds is int(ms) milliseconds).  All     *)
(* values are finite and far from the range limits of a double: the        *)
(* spellings "inf", "nan" and exponents are outside the alphabet of the    *)
(* model.                                                                  *)
(***************************************************************************)
EXTENDS Integers, Sequences, FiniteSets, TLC

VARIABLES
    argc,         \* len(sys.argv)
    fs,           \* what open(csv_file) finds: "ok", "missing", "unreadable"
    file,         \* the lines of csv_file, each a sequence of characters
    pc,           \* position of the run
    lineno,       \* index of the next line the for loop reads
    times,        \* main's list times (milliseconds)
    heaps,        \* main's list heaps (tenths of a megabyte)
    out,          \* what has been printed to standard output, in order
    exc,          \* the exception in flight, "none" when there is none
    exit_status   \* -1 while the process runs, then its exit status

vars == <<argc, fs, file, pc, lineno, times, heaps, out, exc, exit_status>>

(***************************************************************************)
(* Bounds of the model.                                                    *)
(***************************************************************************)
MaxLines == 3
MaxSamples == 5

(***************************************************************************)
(* Characters and strings.                                                 *)
(***************************************************************************)
Digits == {"0", "1", "2", "3", "4", "5", "6", "7", "8", "9"}

IsDigit(c) == c \in Digits

DigitVal(c) ==
    CASE c = "0" -> 0 [] c = "1" -> 1 [] c = "2" -> 2 [] c = "3" -> 3
      [] c = "4" -> 4 [] c = "5" -> 5 [] c = "6" -> 6 [] c = "7" -> 7
      [] c = "8" -> 8 [] c = "9" -> 9

\* str.strip(): leading and trailing whitespace removed.
RECURSIVE LStrip(_)
LStrip(s) == IF s # <<>> /\ Head(s) = " " THEN LStrip(Tail(s)) ELSE s

RECURSIVE RStrip(_)
RStrip(s) ==
    IF s # <<>> /\ s[Len(s)] = " " THEN RStrip(SubSeq(s, 1, Len(s) - 1)) ELSE s

Strip(s) == RStrip(LStrip(s))

\* c in s
Contains(s, c) == \E i \in 1..Len(s) : s[i] = c

\* s.split(c): the fields between the occurrences of c, empty fields kept.
RECURSIVE Split(_, _)
Split(s, c) ==
    IF ~Contains(s, c) THEN <<s>>
    ELSE LET i == CHOOSE k \in 1..Len(s) :
                      s[k] = c /\ \A j \in 1..(k - 1) : s[j] # c
         IN <<SubSeq(s, 1, i - 1)>> \o Split(SubSeq(s, i + 1, Len(s)), c)

\* s.replace('MB', ''): every non-overlapping occurrence removed, left to right.
RECURSIVE ReplaceMB(_)
ReplaceMB(s) ==
    IF s = <<>> THEN <<>>
    ELSE IF Len(s) >= 2 /\ s[1] = "M" /\ s[2] = "B"
         THEN ReplaceMB(SubSeq(s, 3, Len(s)))
         ELSE <<Head(s)>> \o ReplaceMB(Tail(s))

\* Index just past the run of digits of s that starts at i (i when none).
RECURSIVE DigitsEnd(_, _)
DigitsEnd(s, i) ==
    IF i <= Len(s) /\ IsDigit(s[i]) THEN DigitsEnd(s, i + 1) ELSE i

\* int() of the digits s[i..j-1].
RECURSIVE ToInt(_, _, _)
ToInt(s, i, j) ==
    IF j <= i THEN 0 ELSE ToInt(s, i, j - 1) * 10 + DigitVal(s[j - 1])

(***************************************************************************)
(* float(): on the alphabet of the model a string is a float literal iff   *)
(* it is [-] digits [. [digits]] or [-] . digits, with optional            *)
(* surrounding whitespace.                                                 *)
(***************************************************************************)
FloatBody(s) == IF s # <<>> /\ Head(s) = "-" THEN Tail(s) ELSE s

FloatValid(str) ==
    LET s == FloatBody(Strip(str))
        a == DigitsEnd(s, 1)
    IN  \/ a > 1 /\ a = Len(s) + 1
        \/ a > 1 /\ a <= Len(s) /\ s[a] = "." /\ DigitsEnd(s, a + 1) = Len(s) + 1
        \/ a = 1 /\ s # <<>> /\ s[1] = "." /\ DigitsEnd(s, 2) = Len(s) + 1
                 /\ Len(s) >= 2

\* The value of a float literal, in tenths.
FloatMagnitude(str) ==
    LET s == FloatBody(Strip(str))
        a == DigitsEnd(s, 1)
    IN  ToInt(s, 1, a) * 10
          + (IF a + 1 <= Len(s) THEN DigitVal(s[a + 1]) ELSE 0)

\* float() that loses the sign of the literal.
FloatValueUnsigned(str) == FloatMagnitude(str)

FloatValue(str) ==
    IF Strip(str) # <<>> /\ Head(Strip(str)) = "-"
    THEN 0 - FloatMagnitude(str)
    ELSE FloatMagnitude(str)

(***************************************************************************)
(* parse_time: re.match(r'(\d+):(\d+):(\d+)\.(\d+)', time_str), a match at *)
(* the start of the string; h*3600 + m*60 + s + ms/1000 seconds, 0 without *)
(* a match.  The result is in milliseconds.                                *)
(***************************************************************************)
parse_time(time_str) ==
    LET s  == time_str
        a  == DigitsEnd(s, 1)
        b  == DigitsEnd(s, a + 1)
        c  == DigitsEnd(s, b + 1)
        d  == DigitsEnd(s, c + 1)
        match == /\ a > 1     /\ a <= Len(s) /\ s[a] = ":"
                 /\ b > a + 1 /\ b <= Len(s) /\ s[b] = ":"
                 /\ c > b + 1 /\ c <= Len(s) /\ s[c] = "."
                 /\ d > c + 1
    IN  IF match
        THEN ToInt(s, 1, a) * 3600000 + ToInt(s, a + 1, b) * 60000
               + ToInt(s, b + 1, c) * 1000 + ToInt(s, c + 1, d)
        ELSE 0


(***************************************************************************)
(* The loop body of main, lines 100-118, for one line of the file.         *)
(***************************************************************************)
\* The field-count test written as len(parts) < 2.
SkippedFewerThanTwo(raw) ==
    LET line == Strip(raw)
    IN  \/ line = <<>>
        \/ ~Contains(line, ",")
        \/ Len(Split(line, ",")) < 2

\* Lines 101-107: the line contributes nothing and raises nothing.
Skipped(raw) ==
    LET line == Strip(raw)
    IN  \/ line = <<>>
        \/ ~Contains(line, ",")
        \/ Len(Split(line, ",")) # 2

time_str(raw) == Split(Strip(raw), ",")[1]

heap_str(raw) == Split(Strip(raw), ",")[2]

\* Line 115: the argument handed to float().
HeapText(raw) == Strip(ReplaceMB(heap_str(raw)))

\* Line 115 raises ValueError.
HeapRaises(raw) == ~FloatValid(HeapText(raw))

time_val(raw) == parse_time(time_str(raw))

heap_val(raw) == FloatValue(HeapText(raw))

(***************************************************************************)
(* plot_ascii's statistics, lines 27-33 and 60-64.                         *)
(***************************************************************************)
SeqMin(s) == CHOOSE x \in {s[i] : i \in 1..Len(s)} : \A j \in 1..Len(s) : x <= s[j]

SeqMax(s) == CHOOSE x \in {s[i] : i \in 1..Len(s)} : \A j \in 1..Len(s) : x >= s[j]

min_heap(hs) == SeqMin(hs)

max_heap(hs) == SeqMax(hs)

\* Line 33; 1 MB is 10 tenths.
heap_range(hs) ==
    IF max_heap(hs) > min_heap(hs) THEN max_heap(hs) - min_heap(hs) ELSE 1 * 10

\* Lines 27-28: times shifted to start at 0.
normalized_times(ts) == [i \in 1..Len(ts) |-> ts[i] - ts[1]]

\* times[-1] after normalisation.
duration(ts) == normalized_times(ts)[Len(ts)]

\* The bar length without the subtraction of min_heap.
bar_lenNoBaseline(h, hs) ==
    LET num == h * 40
        den == heap_range(hs)
    IN  IF num >= 0 THEN num \div den ELSE 0 - ((0 - num) \div den)

\* The bar length scaled to 50 characters.
bar_lenScaledTo50(h, hs) ==
    LET num == (h - min_heap(hs)) * 50
        den == heap_range(hs)
    IN  IF num >= 0 THEN num \div den ELSE 0 - ((0 - num) \div den)

\* Lines 46-47: int(((h - min_heap) / heap_range) * 40), truncation toward zero.
bar_len(h, hs) ==
    LET num == (h - min_heap(hs)) * 40
        den == heap_range(hs)
    IN  IF num >= 0 THEN num \div den ELSE 0 - ((0 - num) \div den)

\* The drop test made against the highest earlier sample.
RECURSIVE GcLoopRollingPeak(_, _)
GcLoopRollingPeak(hs, n) ==
    IF n < 2 THEN 0
    ELSE GcLoopRollingPeak(hs, n - 1)
           + (IF 10 * hs[n] < 8 * SeqMax(SubSeq(hs, 1, n - 1)) THEN 1 ELSE 0)

\* Lines 61-64: the loop over i = 1 .. len(heaps)-1 (0-based), run up to index n.
RECURSIVE GcLoop(_, _)
GcLoop(hs, n) ==
    IF n < 2 THEN 0
    ELSE GcLoop(hs, n - 1) + (IF 10 * hs[n] < 8 * hs[n - 1] THEN 1 ELSE 0)

gc_count(hs) == GcLoop(hs, Len(hs))

\* The frequency test without the guard on the duration.
PrintsFrequencyAnyDuration(ts, hs) == gc_count(hs) > 0

\* Line 68: the frequency line is printed.
PrintsFrequency(ts, hs) == gc_count(hs) > 0 /\ duration(ts) > 0

\* Line 75: heap_range / max_heap < 0.3, for max_heap # 0.
SmallFluctuation(hs) ==
    IF max_heap(hs) > 0
    THEN 10 * heap_range(hs) < 3 * max_heap(hs)
    ELSE TRUE

(***************************************************************************)
(* What is printed.                                                        *)
(***************************************************************************)
Line(tag) == [tag |-> tag]

Row(t, h, hs) == [tag |-> "row", time |-> t, heap |-> h, bar |-> bar_len(h, hs)]

Rows(ts, hs) ==
    [i \in 1..Len(hs) |-> Row(normalized_times(ts)[i], hs[i], hs)]

Stats(ts, hs) ==
    [tag |-> "stats", min |-> min_heap(hs), max |-> max_heap(hs),
     range |-> heap_range(hs), duration |-> duration(ts)]

GcBlock(ts, hs) ==
    <<[tag |-> "gc", collections |-> gc_count(hs)]>>
      \o (IF PrintsFrequency(ts, hs) THEN <<Line("frequency")>> ELSE <<>>)

(***************************************************************************)
(* The input files of the model.                                           *)
(***************************************************************************)
T0 == <<"1", ":", "0", ":", "0", ".", "0">>

T1 == <<"1", ":", "0", ":", "1", ".", "0">>

T2 == <<"1", ":", "0", ":", "2", ".", "5", "0", "0">>

T3 == <<"1", ":", "0", ":", "3", ".", "0">>

T4 == <<"1", ":", "0", ":", "4", ".", "0">>

Csv(t, h) == t \o <<",">> \o h

FileLines ==
    { <<>>,
      <<" ", " ">>,
      <<"a", "b", "c">>,
      <<"a", ",", "b", ",", "c">>,
      <<",">>,
      Csv(T0, <<"1", "0">>),
      Csv(T1, <<"8">>),
      <<" ">> \o Csv(T2, <<" ", "1", "0", ".", "0", " ", "M", "B", " ">>),
      Csv(<<"x">>, <<"7", ".", "5", "M", "B">>),
      Csv(T3, <<"0">>),
      Csv(T4, <<"-", "1">>),
      Csv(T4, <<"a", "b", "c">>) }

Files == UNION { [1..n -> FileLines] : n \in 0..MaxLines }

(***************************************************************************)
(* The run of main.                                                        *)
(***************************************************************************)
Init ==
    /\ argc \in {1, 2}
    /\ fs \in {"ok", "missing", "unreadable"}
    /\ file \in Files
    /\ (argc = 1 => fs = "ok" /\ file = <<>>)
    /\ (fs # "ok" => file = <<>>)
    /\ pc = "start"
    /\ lineno = 1
    /\ times = <<>>
    /\ heaps = <<>>
    /\ out = <<>>
    /\ exc = "none"
    /\ exit_status = -1

\* Lines 87-93.
CheckArgs ==
    /\ pc = "start"
    /\ IF argc < 2
       THEN /\ out' = out \o <<Line("usage"), Line("hint")>>
            /\ exit_status' = 1
            /\ pc' = "exited"
       ELSE /\ pc' = "open"
            /\ UNCHANGED <<out, exit_status>>
    /\ UNCHANGED <<argc, fs, file, lineno, times, heaps, exc>>

\* Line 99: open(csv_file, 'r').
OpenFile ==
    /\ pc = "open"
    /\ IF fs = "ok"
       THEN pc' = "read" /\ exc' = exc
       ELSE /\ pc' = "except"
            /\ exc' = IF fs = "missing" THEN "FileNotFoundError" ELSE "PermissionError"
    /\ UNCHANGED <<argc, fs, file, lineno, times, heaps, out, exit_status>>

\* The loop body with the ValueError of float() caught and the line dropped.
ReadLineSkipsBadHeap ==
    /\ pc = "read"
    /\ lineno <= Len(file)
    /\ LET raw == file[lineno]
       IN  IF Skipped(raw) \/ HeapRaises(raw)
           THEN /\ lineno' = lineno + 1
                /\ UNCHANGED <<times, heaps, pc, exc>>
           ELSE /\ times' = Append(times, time_val(raw))
                /\ heaps' = Append(heaps, heap_val(raw))
                /\ lineno' = lineno + 1
                /\ UNCHANGED <<pc, exc>>
    /\ UNCHANGED <<argc, fs, file, out, exit_status>>

\* Lines 100-118: one iteration of the for loop.
ReadLine ==
    /\ pc = "read"
    /\ lineno <= Len(file)
    /\ LET raw == file[lineno]
       IN  IF Skipped(raw)
           THEN /\ lineno' = lineno + 1
                /\ UNCHANGED <<times, heaps, pc, exc>>
           ELSE IF HeapRaises(raw)
           THEN /\ pc' = "except"
                /\ exc' = "ValueError"
                /\ UNCHANGED <<times, heaps, lineno>>
           ELSE /\ times' = Append(times, time_val(raw))
                /\ heaps' = Append(heaps, heap_val(raw))
                /\ lineno' = lineno + 1
                /\ UNCHANGED <<pc, exc>>
    /\ UNCHANGED <<argc, fs, file, out, exit_status>>

\* The end of the loop without the test of line 120.
EndOfFileNoCheck ==
    /\ pc = "read"
    /\ lineno > Len(file)
    /\ pc' = "plot"
    /\ UNCHANGED <<argc, fs, file, lineno, times, heaps, out, exc, exit_status>>

\* Lines 120-124: the loop is over and the file is closed.
EndOfFile ==
    /\ pc = "read"
    /\ lineno > Len(file)
    /\ IF times = <<>>
       THEN /\ out' = Append(out, Line("no_valid_data"))
            /\ exit_status' = 1
            /\ pc' = "exited"
       ELSE /\ pc' = "plot"
            /\ UNCHANGED <<out, exit_status>>
    /\ UNCHANGED <<argc, fs, file, lineno, times, heaps, exc>>

\* plot_ascii, lines 22-42.
PlotBegin ==
    /\ pc = "plot"
    /\ IF times = <<>> \/ heaps = <<>>
       THEN /\ out' = Append(out, Line("no_data_to_plot"))
            /\ pc' = "exited"
            /\ exit_status' = 0
       ELSE /\ out' = out \o <<Line("banner"), Line("header")>>
            /\ pc' = "rows"
            /\ UNCHANGED exit_status
    /\ UNCHANGED <<argc, fs, file, lineno, times, heaps, exc>>

\* plot_ascii, lines 44-50: the loop over the samples.
PlotRows ==
    /\ pc = "rows"
    /\ out' = out \o Rows(times, heaps)
    /\ pc' = "stats"
    /\ UNCHANGED <<argc, fs, file, lineno, times, heaps, exc, exit_status>>

\* plot_ascii, lines 52-58.
PlotStats ==
    /\ pc = "stats"
    /\ out' = Append(out, Stats(times, heaps))
    /\ pc' = "gc"
    /\ UNCHANGED <<argc, fs, file, lineno, times, heaps, exc, exit_status>>

\* plot_ascii, lines 60-69.
PlotGC ==
    /\ pc = "gc"
    /\ out' = out \o GcBlock(times, heaps)
    /\ pc' = "insights"
    /\ UNCHANGED <<argc, fs, file, lineno, times, heaps, exc, exit_status>>

\* plot_ascii, lines 71-84, and the implicit exit of main.
PlotInsights ==
    /\ pc = "insights"
    /\ IF gc_count(heaps) = 0
       THEN /\ out' = out \o <<Line("insights"), Line("no_major_gc"), Line("footer")>>
            /\ pc' = "exited"
            /\ exit_status' = 0
            /\ exc' = exc
       ELSE IF max_heap(heaps) = 0
       THEN /\ out' = Append(out, Line("insights"))
            /\ pc' = "except"
            /\ exc' = "ZeroDivisionError"
            /\ UNCHANGED exit_status
       ELSE /\ out' = out \o <<Line("insights"),
                               Line(IF SmallFluctuation(heaps)
                                    THEN "efficient_gc" ELSE "sawtooth"),
                               Line("average_reclaimed"), Line("footer")>>
            /\ pc' = "exited"
            /\ exit_status' = 0
            /\ exc' = exc
    /\ UNCHANGED <<argc, fs, file, lineno, times, heaps>>

\* The except clauses with every exception reported as a missing file.
ExceptAllNotFound ==
    /\ pc = "except"
    /\ out' = out \o <<Line("file_not_found"), Line("hint")>>
    /\ exit_status' = 1
    /\ pc' = "exited"
    /\ UNCHANGED <<argc, fs, file, lineno, times, heaps, exc>>

\* Lines 126-133: the except clauses of main.
Except ==
    /\ pc = "except"
    /\ out' = IF exc = "FileNotFoundError"
              THEN out \o <<Line("file_not_found"), Line("hint")>>
              ELSE Append(out, Line("error"))
    /\ exit_status' = 1
    /\ pc' = "exited"
    /\ UNCHANGED <<argc, fs, file, lineno, times, heaps, exc>>

plot_ascii == PlotBegin \/ PlotRows \/ PlotStats \/ PlotGC \/ PlotInsights

main == CheckArgs \/ OpenFile \/ ReadLine \/ EndOfFile \/ plot_ascii \/ Except

Next == main

Spec == Init /\ [][Next]_vars


(***************************************************************************)
(* plot_ascii(times, heaps) on its own: the arguments are drawn from       *)
(* bounded sets and the function is applied to them.  The variables of     *)
(* main other than times and heaps play no part.                           *)
(***************************************************************************)
PlotHeaps == {0 - 10, 600, 650, 700, 760, 950, 1000}

PlotInit ==
    /\ argc = 2
    /\ fs = "ok"
    /\ file = <<>>
    /\ lineno = 1
    /\ \E n \in 0..MaxSamples :
          /\ heaps \in [1..n -> PlotHeaps]
          /\ times = [i \in 1..n |-> 1000 * (i - 1)]
    /\ pc = "plot"
    /\ out = <<>>
    /\ exc = "none"
    /\ exit_status = -1

PlotNext == plot_ascii

PlotSpec == PlotInit /\ [][PlotNext]_vars


(***************************************************************************)
(* Vocabulary of the properties.                                           *)
(***************************************************************************)
\* The parts of the report plot_ascii prints.
ReportTags ==
    {"banner", "header", "row", "stats", "gc", "frequency", "insights",
     "no_major_gc", "efficient_gc", "sawtooth", "average_reclaimed", "footer"}

\* The run is inside plot_ascii.
InPlot == pc \in {"plot", "rows", "stats", "gc", "insights"}

\* The run was given a file argument and the file opened.
FileRead == argc = 2 /\ fs = "ok"

\* A line that, trimmed, splits on comma into exactly two fields.
TwoFieldLine(raw) == Len(Split(Strip(raw), ",")) = 2

\* The second field of a two-field line, 'MB' and whitespace removed.
CleanHeapField(raw) == Strip(ReplaceMB(Split(Strip(raw), ",")[2]))

\* A two-field line whose heap field is not a number.
BadHeapLine(raw) == TwoFieldLine(raw) /\ ~FloatValid(CleanHeapField(raw))

HasBadHeapLine == \E i \in 1..Len(file) : BadHeapLine(file[i])

\* The two-field lines among those the loop has gone past, in file order.
LoadedLines == SelectSeq(SubSeq(file, 1, lineno - 1), TwoFieldLine)

Printed(tag) == \E i \in 1..Len(out) : out[i].tag = tag

AllEqual(hs) == \A i, j \in 1..Len(hs) : hs[i] = hs[j]

\* Number of samples that are below 0.8 times the sample right before them.
PairwiseDrops(hs) ==
    Cardinality({i \in 2..Len(hs) : 10 * hs[i] < 8 * hs[i - 1]})

(***************************************************************************)
(* C1: a file with a two-field line whose heap field is not a number makes *)
(* the run end with exit status 1 and the generic error message alone,     *)
(* wherever the line sits; the loop never goes past the line, and neither  *)
(* the report nor the no-valid-data message is printed.                    *)
(***************************************************************************)
C1_BadHeapAborts ==
    (FileRead /\ HasBadHeapLine) =>
        /\ \A i \in 1..Len(file) : BadHeapLine(file[i]) => lineno <= i
        /\ ~InPlot
        /\ pc = "exited" => exit_status = 1 /\ out = <<Line("error")>>

C1_Witness ==
    /\ FileRead /\ pc = "exited" /\ exit_status = 1
    /\ Len(file) = 3 /\ BadHeapLine(file[2])
    /\ ~BadHeapLine(file[1]) /\ TwoFieldLine(file[1]) /\ TwoFieldLine(file[3])
    /\ Len(heaps) = 1

(***************************************************************************)
(* C2: when no heap field fails to parse, the samples loaded so far are    *)
(* exactly the two-field lines gone past, in file order, one sample per    *)
(* line, duplicates kept; the other lines add nothing and raise nothing,   *)
(* and the loop goes through the whole file.                               *)
(***************************************************************************)
C2_SamplesAreTwoFieldLines ==
    (FileRead /\ ~HasBadHeapLine) =>
        /\ Len(heaps) = Len(LoadedLines)
        /\ Len(times) = Len(LoadedLines)
        /\ \A k \in 1..Len(LoadedLines) :
              /\ heaps[k] = FloatValue(CleanHeapField(LoadedLines[k]))
              /\ times[k] = parse_time(Split(Strip(LoadedLines[k]), ",")[1])
        /\ exc # "ValueError"
        /\ pc \notin {"start", "open", "read"} => lineno = Len(file) + 1

C2_Witness ==
    /\ FileRead /\ pc = "plot" /\ Len(file) = 3
    /\ \E i \in 1..3 : ~TwoFieldLine(file[i])
    /\ Len(heaps) = 2 /\ heaps[1] = heaps[2] /\ times[1] = times[2]

(***************************************************************************)
(* C3: when the file opens and no line survives the filtering, the run     *)
(* prints the no-valid-data message alone and exits with status 1, and     *)
(* plot_ascii is never entered.                                            *)
(***************************************************************************)
C3_EmptyDataset ==
    (FileRead /\ \A i \in 1..Len(file) : ~TwoFieldLine(file[i])) =>
        /\ ~InPlot
        /\ \A i \in 1..Len(out) : out[i].tag \notin ReportTags
        /\ pc = "exited" => exit_status = 1 /\ out = <<Line("no_valid_data")>>

C3_Witness ==
    /\ FileRead /\ pc = "exited" /\ Len(file) = 3
    /\ \A i \in 1..Len(file) : ~TwoFieldLine(file[i])
    /\ out = <<Line("no_valid_data")>> /\ exit_status = 1

(***************************************************************************)
(* C4: in every run that ends with exit status 1, no part of the report    *)
(* has been printed.                                                       *)
(***************************************************************************)
C4_NoPartialReport ==
    exit_status = 1 => \A i \in 1..Len(out) : out[i].tag \notin ReportTags

(***************************************************************************)
(* C5: the collections count of the GC-events block is the number of       *)
(* samples below 0.8 times the sample immediately before them.             *)
(***************************************************************************)
C5_GcCountPairwise ==
    \A i \in 1..Len(out) :
        out[i].tag = "gc" => out[i].collections = PairwiseDrops(heaps)

C5_Witness ==
    /\ heaps = <<1000, 950, 600, 650, 700>>
    /\ \E i \in 1..Len(out) : out[i].tag = "gc" /\ out[i].collections = 1

(***************************************************************************)
(* C6 as stated: whenever the collections count is above 0, the GC-events  *)
(* block has the frequency line.                                           *)
(***************************************************************************)
C6_FrequencyWheneverCollections ==
    \A i \in 1..Len(out) :
        (out[i].tag = "gc" /\ out[i].collections > 0) =>
            (i < Len(out) /\ out[i + 1].tag = "frequency")

(***************************************************************************)
(* C6 amended: the GC-events block has the frequency line whenever the     *)
(* collections count is above 0 and the duration (the last normalised      *)
(* time) is above 0, and has none when the duration is not above 0.        *)
(***************************************************************************)
C6_FrequencyNeedsDuration ==
    \A i \in 1..Len(out) :
        out[i].tag = "gc" =>
            /\ (out[i].collections > 0 /\ times[Len(times)] - times[1] > 0)
                  => (i < Len(out) /\ out[i + 1].tag = "frequency")
            /\ times[Len(times)] - times[1] <= 0
                  => (i = Len(out) \/ out[i + 1].tag # "frequency")

C6_Witness ==
    /\ Printed("frequency")
    /\ \E i \in 1..Len(out) : out[i].tag = "gc" /\ out[i].collections > 0
    /\ times[Len(times)] - times[1] > 0

(***************************************************************************)
(* C7 as stated: when the file does not exist or cannot be opened, the run *)
(* prints the file-not-found message with the export hint and exits with   *)
(* status 1.                                                               *)
(***************************************************************************)
C7_NotFoundOrInaccessible ==
    (argc = 2 /\ fs \in {"missing", "unreadable"} /\ pc = "exited") =>
        exit_status = 1 /\ out = <<Line("file_not_found"), Line("hint")>>

(***************************************************************************)
(* C7 amended: when the file does not exist, the run prints the            *)
(* file-not-found message with the export hint and exits with status 1;    *)
(* when it exists but cannot be opened, the run prints the generic error   *)
(* message instead and exits with status 1.                                *)
(***************************************************************************)
C7_NotFoundOnlyWhenMissing ==
    (argc = 2 /\ pc = "exited") =>
        /\ fs = "missing" =>
              exit_status = 1 /\ out = <<Line("file_not_found"), Line("hint")>>
        /\ fs = "unreadable" =>
              exit_status = 1 /\ out = <<Line("error")>>

C7_Witness ==
    /\ argc = 2 /\ fs = "missing" /\ pc = "exited"
    /\ Printed("file_not_found") /\ exit_status = 1

(***************************************************************************)
(* C8: when all heap values are equal, a single sample included, the       *)
(* range of the statistics block is 1 MB and every row's bar has length 0. *)
(***************************************************************************)
C8_FlatData ==
    (heaps # <<>> /\ AllEqual(heaps)) =>
        \A i \in 1..Len(out) :
            /\ out[i].tag = "stats" => out[i].range = 10
            /\ out[i].tag = "row" => out[i].bar = 0

C8_Witness ==
    /\ Len(heaps) >= 2 /\ AllEqual(heaps) /\ heaps[1] > 0
    /\ Printed("row") /\ Printed("stats")

(***************************************************************************)
(* C9 as stated: every loaded sample has heap >= 0.                        *)
(***************************************************************************)
C9_HeapNonNegative == \A k \in 1..Len(heaps) : heaps[k] >= 0

(***************************************************************************)
(* C9 amended: every loaded sample carries the sign of its line's heap     *)
(* field: its heap is below 0 exactly when the field, 'MB' and whitespace  *)
(* removed, starts with a minus sign and has a nonzero digit; such samples *)
(* are loaded and handed to the analyzer like the others.                  *)
(***************************************************************************)
C9_HeapKeepsSign ==
    FileRead =>
        /\ Len(heaps) = Len(LoadedLines)
        /\ \A k \in 1..Len(LoadedLines) :
              LET field == CleanHeapField(LoadedLines[k])
              IN  heaps[k] < 0 <=>
                    /\ field # <<>> /\ field[1] = "-"
                    /\ \E j \in 1..Len(field) : IsDigit(field[j]) /\ field[j] # "0"

C9_Witness ==
    /\ FileRead /\ InPlot
    /\ \E k \in 1..Len(heaps) : heaps[k] < 0
    /\ \E k \in 1..Len(heaps) : heaps[k] > 0

(***************************************************************************)
(* C10: every row's bar length is an integer in 0..40; a sample at         *)
(* min_heap gets 0 and, when max_heap > min_heap, a sample at max_heap     *)
(* gets 40.                                                                *)
(***************************************************************************)
C10_BarLength ==
    \A i \in 1..Len(out) :
        out[i].tag = "row" =>
            /\ out[i].bar \in 0..40
            /\ out[i].heap = SeqMin(heaps) => out[i].bar = 0
            /\ (SeqMax(heaps) > SeqMin(heaps) /\ out[i].heap = SeqMax(heaps))
                  => out[i].bar = 40

C10_Witness ==
    /\ heaps # <<>>
    /\ SeqMax(heaps) > SeqMin(heaps)
    /\ \E i \in 1..Len(out) : out[i].tag = "row" /\ out[i].bar = 40
    /\ \E i \in 1..Len(out) : out[i].tag = "row" /\ out[i].bar = 0
    /\ \E i \in 1..Len(out) :
          out[i].tag = "row" /\ out[i].bar > 0 /\ out[i].bar < 40

==========================================================================
